---- MODULE Spec2Model ----
(***************************************************************************)
(* GDP waterfall charts (D3).  The repository holds three versions of the  *)
(* waterfall script:                                                       *)
(*   "script1"  src/script.js lines 1-234   (filters NaN GDP rows)         *)
(*   "script2"  src/script.js lines 236-472 (older version, no filter)     *)
(*   "part000"  src/unnamed/part_000        (computeWaterfall, "|| 0")     *)
(* One of them is loaded on the page.  The page fetches a semicolon DSV,   *)
(* infers the columns, cleans the rows, groups them by country, draws the  *)
(* waterfall of the selected country and registers the change and reset    *)
(* handlers.  A fourth script, src/unnamed/part_001, draws a multi-line    *)
(* chart of the same data with a brush that zooms the x axis; it has its   *)
(* own variables and its own specification, LineSpec.  ParseSpec applies   *)
(* the number normalizer parseNum to a string and to its own result.       *)
(*                                                                         *)
(* A JS string is a tuple of one-character strings; the JS value undefined *)
(* is the tuple Undefined.  A JS number is a record [nan, v]: v counts     *)
(* tenths, so 1000.5 is Num(10005); NaN is the record NaN, and it is never *)
(* equal to anything under NumEq, itself included.                         *)
(***************************************************************************)
EXTENDS Integers, Sequences, FiniteSets, TLC

\* ------------------------------------------------------------------ bounds

\* The longest table the DSV parser hands to the load callback.
MaxRows == 3

\* ----------------------------------------------------------------- strings

Undefined == <<"undefined">>

Digits == <<"0", "1", "2", "3", "4", "5", "6", "7", "8", "9">>

UpperCase == <<"A", "B", "C", "D", "E", "F", "G", "H", "I", "J", "K", "L", "M",
               "N", "O", "P", "Q", "R", "S", "T", "U", "V", "W", "X", "Y", "Z">>

LowerCase == <<"a", "b", "c", "d", "e", "f", "g", "h", "i", "j", "k", "l", "m",
               "n", "o", "p", "q", "r", "s", "t", "u", "v", "w", "x", "y", "z">>

Range(s) == {s[i] : i \in DOMAIN s}

IsDigit(c) == c \in Range(Digits)

IsLetter(c) == c \in Range(UpperCase) \cup Range(LowerCase)

\* The characters /\s/ matches among those the tables use.
IsSpace(c) == c \in {" ", "\t"}

DigitVal(c) == (CHOOSE i \in DOMAIN Digits : Digits[i] = c) - 1

toLowerCaseChar(c) ==
    IF c \in Range(UpperCase)
    THEN LowerCase[CHOOSE i \in DOMAIN UpperCase : UpperCase[i] = c]
    ELSE c

toLowerCase(s) == [i \in DOMAIN s |-> toLowerCaseChar(s[i])]

\* String.prototype.trim
RECURSIVE trimStart(_)
trimStart(s) ==
    IF s # <<>> /\ IsSpace(Head(s)) THEN trimStart(Tail(s)) ELSE s

RECURSIVE trimEnd(_)
trimEnd(s) ==
    IF s # <<>> /\ IsSpace(s[Len(s)])
    THEN trimEnd(SubSeq(s, 1, Len(s) - 1))
    ELSE s

trim(s) == trimEnd(trimStart(s))

\* pat occurs in s at position p
MatchAt(s, p, pat) ==
    /\ p + Len(pat) - 1 <= Len(s)
    /\ \A j \in DOMAIN pat : s[p + j - 1] = pat[j]

\* s.includes(pat)
Includes(s, pat) == \E p \in 1..Len(s) : MatchAt(s, p, pat)

\* /pat/i.test(s) for a literal pattern pat given in lower case
TestCI(s, pat) == Includes(toLowerCase(s), pat)

\* --------------------------------------------------------------- numbers

NaN == [nan |-> TRUE, v |-> 0]

Num(n) == [nan |-> FALSE, v |-> n]

\* a whole number n as a JS number
Whole(n) == Num(n * 10)

isNaN(x) == x.nan

\* x === y on numbers: NaN equals nothing
NumEq(x, y) == ~x.nan /\ ~y.nan /\ x.v = y.v

Plus(x, y) == IF x.nan \/ y.nan THEN NaN ELSE Num(x.v + y.v)

Minus(x, y) == IF x.nan \/ y.nan THEN NaN ELSE Num(x.v - y.v)

\* x >= 0 and x < 0: both false of NaN
GeqZero(x) == ~x.nan /\ x.v >= 0

LtZero(x) == ~x.nan /\ x.v < 0

\* x || 0 on a number: NaN and 0 are falsy
OrZero(x) == IF x.nan THEN Num(0) ELSE x

\* x || NaN on a number
OrNaN(x) == IF x.nan \/ x.v = 0 THEN NaN ELSE x

RECURSIVE Pow10(_)
Pow10(k) == IF k <= 0 THEN 1 ELSE 10 * Pow10(k - 1)

\* the number of digits of s from position p on
RECURSIVE DigitRun(_, _)
DigitRun(s, p) ==
    IF p <= Len(s) /\ IsDigit(s[p]) THEN 1 + DigitRun(s, p + 1) ELSE 0

\* the value of the n digits of s from position p on, after acc
RECURSIVE DigitsValue(_, _, _, _)
DigitsValue(s, p, n, acc) ==
    IF n = 0 THEN acc
    ELSE DigitsValue(s, p + 1, n - 1, acc * 10 + DigitVal(s[p]))

\* The longest prefix of s that is a StrDecimalLiteral:
\*   [+-] digits [. digits] [(e|E) [+-] digits]   or   [+-] . digits [exp]
\* ok: there is one; len: its length; the value is neg, digits (those of
\* the integer part and the fraction), nFrac, exp.
\* The scan goes left to right: sign, integer digits, fraction, exponent.
HasSign(s) == s # <<>> /\ s[1] \in {"+", "-"}

HasDot(s, p) == p <= Len(s) /\ s[p] = "."

HasE(s, p) == p <= Len(s) /\ s[p] \in {"e", "E"}

HasExpSign(s, p) == HasE(s, p) /\ p + 1 <= Len(s) /\ s[p + 1] \in {"+", "-"}

\* p3: where the exponent's digits start; nExp: how many there are
ScanEnd(s, p0, nInt, nFrac, p2, p3, nExp) ==
    [ok    |-> nInt + nFrac >= 1,
     len   |-> IF nExp >= 1 THEN p3 + nExp - 1 ELSE p2 - 1,
     neg   |-> HasSign(s) /\ s[1] = "-",
     digits |-> SubSeq(s, p0, p0 + nInt - 1)
                \o SubSeq(s, p0 + nInt + 1, p0 + nInt + nFrac),
     nDig  |-> nInt + nFrac,
     nFrac |-> nFrac,
     exp   |-> IF nExp >= 1
               THEN (IF s[p2 + 1] = "-"
                     THEN 0 - DigitsValue(s, p3, nExp, 0)
                     ELSE DigitsValue(s, p3, nExp, 0))
               ELSE 0]

ScanExpDigits(s, p0, nInt, nFrac, p2, p3) ==
    ScanEnd(s, p0, nInt, nFrac, p2, p3, IF HasE(s, p2) THEN DigitRun(s, p3) ELSE 0)

\* p2: the position after the mantissa
ScanExp(s, p0, nInt, nFrac, p2) ==
    ScanExpDigits(s, p0, nInt, nFrac, p2, IF HasExpSign(s, p2) THEN p2 + 2 ELSE p2 + 1)

ScanFrac(s, p0, nInt, nFrac) ==
    ScanExp(s, p0, nInt, nFrac,
            IF HasDot(s, p0 + nInt) THEN p0 + nInt + 1 + nFrac ELSE p0 + nInt)

ScanInt(s, p0, nInt) ==
    ScanFrac(s, p0, nInt,
             IF HasDot(s, p0 + nInt) THEN DigitRun(s, p0 + nInt + 1) ELSE 0)

ScanFrom(s, p0) == ScanInt(s, p0, DigitRun(s, p0))

ScanDecimal(s) == ScanFrom(s, IF HasSign(s) THEN 2 ELSE 1)

\* the digits without their leading zeros, and without their trailing ones
RECURSIVE DropLeadingZeros(_)
DropLeadingZeros(ds) ==
    IF ds # <<>> /\ Head(ds) = "0" THEN DropLeadingZeros(Tail(ds)) ELSE ds

RECURSIVE DropTrailingZeros(_)
DropTrailingZeros(ds) ==
    IF ds # <<>> /\ ds[Len(ds)] = "0"
    THEN DropTrailingZeros(SubSeq(ds, 1, Len(ds) - 1))
    ELSE ds

Significant(ds) == DropTrailingZeros(DropLeadingZeros(ds))

\* the place of the decimal point: the literal is 0.d1d2... times 10 to
\* this power, d1 being its first digit that is not 0
PointOf(d) ==
    (d.nDig - d.nFrac) + d.exp - (Len(d.digits) - Len(DropLeadingZeros(d.digits)))

\* a is after b in the order of the dictionary, b being at least as long
RECURSIVE DigitsAfter(_, _)
DigitsAfter(a, b) ==
    /\ a # <<>>
    /\ \/ DigitVal(Head(a)) > DigitVal(Head(b))
       \/ Head(a) = Head(b) /\ DigitsAfter(Tail(a), Tail(b))

\* the first digits of 1.7976931348623158e308, from where on a literal
\* rounds to Infinity
InfinityDigits == <<"1", "7", "9", "7", "6", "9", "3", "1", "3", "4", "8", "6">>

\* The value of a scanned literal.  A literal that rounds to Infinity is
\* rejected by isFinite.  The literals of the model have fewer digits than
\* InfinityDigits and are all far above the smallest double.
ScanInfinite(d) ==
    /\ Significant(d.digits) # <<>>
    /\ \/ PointOf(d) > 309
       \/ PointOf(d) = 309 /\ DigitsAfter(Significant(d.digits), InfinityDigits)

Mant(d) == DigitsValue(d.digits, 1, Len(d.digits), 0)

ScanMagnitude(d, k) ==
    IF k >= 0 THEN Mant(d) * Pow10(k) ELSE Mant(d) \div Pow10(0 - k)

ScanValue(d) ==
    Num(IF d.neg
        THEN 0 - ScanMagnitude(d, d.exp - d.nFrac + 1)
        ELSE ScanMagnitude(d, d.exp - d.nFrac + 1))

\* isFinite(n) ? n : NaN on a scanned literal
FiniteValue(d) == IF d.ok /\ ~ScanInfinite(d) THEN ScanValue(d) ELSE NaN

\* parseFloat followed by isFinite(n) ? n : NaN
parseFloatFinite(s) == FiniteValue(ScanDecimal(trimStart(s)))

\* the value of a trimmed string that is a numeric literal as a whole
WholeLiteral(t, d) ==
    IF t = <<>> THEN Num(0)
    ELSE IF d.ok /\ d.len = Len(t) THEN FiniteValue(d)
    ELSE NaN

ToNumberTrimmed(t) == WholeLiteral(t, ScanDecimal(t))

\* unary plus on a cell: undefined is NaN, a blank string is 0, a string
\* that is a decimal literal as a whole is its value, anything else NaN
ToNumber(s) == IF s = Undefined THEN NaN ELSE ToNumberTrimmed(trim(s))

\* parseInt on a string: the digits after an optional sign, NaN without one
ParseIntDigits(t, p0, n) ==
    IF n = 0 THEN NaN
    ELSE IF HasSign(t) /\ t[1] = "-" THEN Whole(0 - DigitsValue(t, p0, n, 0))
    ELSE Whole(DigitsValue(t, p0, n, 0))

ParseIntFrom(t, p0) == ParseIntDigits(t, p0, DigitRun(t, p0))

ParseIntTrimmed(t) == ParseIntFrom(t, IF HasSign(t) THEN 2 ELSE 1)

parseInt(s) == ParseIntTrimmed(trimStart(s))

\* parseNum, the numeric normalizer
NumericChars == Range(Digits) \cup {"e", "E", "+", ".", "-"}

\* v.replace(/\s/g, "")
StripSpaces(v) == SelectSeq(v, LAMBDA c : ~IsSpace(c))

\* a comma for the decimals and dots for the thousands
DecimalCommas(w) == [i \in DOMAIN w |-> IF w[i] = "," THEN "." ELSE w[i]]

GermanDecimal(v) == DecimalCommas(SelectSeq(v, LAMBDA c : c # "."))

\* v.replace(/,/g, ".")
CommasToDots(v) == [i \in DOMAIN v |-> IF v[i] = "," THEN "." ELSE v[i]]

\* v.replace(/[^0-9eE+.\-]/g, "")
KeepNumeric(v) == SelectSeq(v, LAMBDA c : c \in NumericChars)

\* the normalizer after String(s).trim()
ParseNumTrimmed(v) ==
    IF v = <<>> \/ toLowerCase(v) = <<"n", "a", "n">> THEN NaN
    ELSE parseFloatFinite(KeepNumeric(CommasToDots(StripSpaces(v))))

parseNum(s) == IF s = Undefined THEN NaN ELSE ParseNumTrimmed(trim(s))

\* The normalizer with its results written out in full: a number is its
\* sign, its digits from the first to the last that is not 0, and the place
\* of its decimal point; 0 has no digits, and -0 is 0.
NotANumber == [nan |-> TRUE, neg |-> FALSE, digits |-> <<>>, point |-> 0]

Decimal(neg, digits, point) ==
    IF digits = <<>> THEN [nan |-> FALSE, neg |-> FALSE, digits |-> <<>>, point |-> 0]
    ELSE [nan |-> FALSE, neg |-> neg, digits |-> digits, point |-> point]

\* isFinite(n) ? n : NaN on a scanned literal
FiniteDecimal(d) ==
    IF d.ok /\ ~ScanInfinite(d)
    THEN Decimal(d.neg, Significant(d.digits), PointOf(d))
    ELSE NotANumber

NormalizeTrimmed(v) ==
    IF v = <<>> \/ toLowerCase(v) = <<"n", "a", "n">> THEN NotANumber
    ELSE FiniteDecimal(
             ScanDecimal(trimStart(KeepNumeric(CommasToDots(StripSpaces(v))))))

\* parseNum on a string
normalize(s) == NormalizeTrimmed(trim(s))

\* the digits of a natural number
RECURSIVE NaturalText(_)
NaturalText(n) ==
    IF n < 10 THEN <<Digits[n + 1]>>
    ELSE NaturalText(n \div 10) \o <<Digits[(n % 10) + 1]>>

Zeros(n) == [i \in 1..n |-> "0"]

\* Number::toString of a positive number of digits ds and point n
PositiveText(ds, n) ==
    IF Len(ds) <= n /\ n <= 21 THEN ds \o Zeros(n - Len(ds))
    ELSE IF 0 < n /\ n <= 21
    THEN SubSeq(ds, 1, n) \o <<".">> \o SubSeq(ds, n + 1, Len(ds))
    ELSE IF 0 - 6 < n /\ n <= 0 THEN <<"0", ".">> \o Zeros(0 - n) \o ds
    ELSE (IF Len(ds) = 1 THEN ds ELSE <<Head(ds), ".">> \o Tail(ds))
         \o <<"e", IF n - 1 < 0 THEN "-" ELSE "+">>
         \o NaturalText(IF n - 1 < 0 THEN 1 - n ELSE n - 1)

\* String(s) on a number
StringOf(x) ==
    IF x.nan THEN <<"N", "a", "N">>
    ELSE IF x.digits = <<>> THEN <<"0">>
    ELSE IF x.neg THEN <<"-">> \o PositiveText(x.digits, x.point)
    ELSE PositiveText(x.digits, x.point)

\* ------------------------------------------------------------ collections

\* Array.prototype.find: the first of the elements that pass the test,
\* undefined if none; matching holds the elements that pass, in order
find(matching) == IF matching = <<>> THEN Undefined ELSE matching[1]

\* a string or undefined as a condition: undefined and "" are falsy
Truthy(s) == s # Undefined /\ s # <<>>

\* a || b
OrElse(a, b) == IF Truthy(a) THEN a ELSE b

\* a sort that keeps one element per year
InsertByYearOnce(sorted, e) ==
    IF \E i \in DOMAIN sorted : sorted[i].year = e.year THEN sorted
    ELSE SelectSeq(sorted, LAMBDA d : d.year.v < e.year.v) \o <<e>>
         \o SelectSeq(sorted, LAMBDA d : d.year.v > e.year.v)

\* Array.prototype.sort((a, b) => a.year - b.year): stable, each element
\* goes after every element of the sorted prefix that is not greater
RECURSIVE InsertByYear(_, _)
InsertByYear(sorted, e) ==
    IF sorted = <<>> THEN <<e>>
    ELSE IF e.year.v < Head(sorted).year.v THEN <<e>> \o sorted
    ELSE <<Head(sorted)>> \o InsertByYear(Tail(sorted), e)

RECURSIVE SortByYear(_)
SortByYear(seq) ==
    IF seq = <<>> THEN <<>>
    ELSE InsertByYear(SortByYear(SubSeq(seq, 1, Len(seq) - 1)), seq[Len(seq)])

\* a.localeCompare(b) < 0: letters in alphabetical order, after the space
\* and the digits; a proper prefix sorts first
CollationRank(c) ==
    IF IsLetter(c)
    THEN 20 + (CHOOSE i \in DOMAIN LowerCase : LowerCase[i] = toLowerCaseChar(c))
    ELSE IF IsDigit(c) THEN 10 + DigitVal(c)
    ELSE 0

RECURSIVE LocaleLess(_, _)
LocaleLess(a, b) ==
    IF b = <<>> THEN FALSE
    ELSE IF a = <<>> THEN TRUE
    ELSE IF CollationRank(Head(a)) # CollationRank(Head(b))
         THEN CollationRank(Head(a)) < CollationRank(Head(b))
    ELSE LocaleLess(Tail(a), Tail(b))

\* Array.prototype.sort((a, b) => a.localeCompare(b))
RECURSIVE InsertByLocale(_, _)
InsertByLocale(sorted, e) ==
    IF sorted = <<>> THEN <<e>>
    ELSE IF LocaleLess(e, Head(sorted)) THEN <<e>> \o sorted
    ELSE <<Head(sorted)>> \o InsertByLocale(Tail(sorted), e)

RECURSIVE SortByLocale(_)
SortByLocale(seq) ==
    IF seq = <<>> THEN <<>>
    ELSE InsertByLocale(SortByLocale(SubSeq(seq, 1, Len(seq) - 1)), seq[Len(seq)])

\* the keys of d3.group(rows, d => d.country), in order of first appearance
AddKey(ks, c) == IF c \in Range(ks) THEN ks ELSE Append(ks, c)

RECURSIVE GroupKeys(_)
GroupKeys(rows) ==
    IF rows = <<>> THEN <<>>
    ELSE AddKey(GroupKeys(SubSeq(rows, 1, Len(rows) - 1)), rows[Len(rows)].country)

\* d3.group(rows, d => d.country): each key's rows in table order
group(rows) ==
    [c \in Range(GroupKeys(rows)) |-> SelectSeq(rows, LAMBDA r : r.country = c)]

\* Map.prototype.get(c) || []
GetOrEmpty(grp, c) == IF c \in DOMAIN grp THEN grp[c] ELSE <<>>

\* a draw that sorts the stored array of country c itself
SortedInPlace(grp, c) ==
    IF c \in DOMAIN grp THEN [grp EXCEPT ![c] = SortByYear(grp[c])] ELSE grp

\* the stored arrays after a draw of country c: .slice() and Array.from
\* hand a copy to sort, so the stored array keeps its order
StoredAfterSort(grp, c) == grp

\* Array.from(grouped.keys()).sort((a, b) => a.localeCompare(b))
SortedCountries(rows) == SortByLocale(GroupKeys(rows))

\* ------------------------------------------------------------------ tables

ColCountryName == <<"C", "o", "u", "n", "t", "r", "y", " ", "N", "a", "m", "e">>
ColYear == <<"Y", "e", "a", "r">>
ColGDP == <<"G", "D", "P">>
ColPopulation == <<"P", "o", "p">>
ColRealGDP == <<"R", "e", "a", "l", " ", "G", "D", "P">>

\* the headers of the input file: with a GDP column, and without one
GdpHeader == <<ColCountryName, ColYear, ColGDP>>
NoGdpHeader == <<ColCountryName, ColYear, ColPopulation>>
Headers == {GdpHeader, NoGdpHeader}

\* two more headers, of the same three names in two orders
RealGdpHeader == <<ColCountryName, ColYear, ColRealGDP>>
GdpFirstHeader == <<ColRealGDP, ColCountryName, ColYear>>
AllHeaders == Headers \cup {RealGdpHeader, GdpFirstHeader}

DE == <<"D", "E">>
FR == <<"F", "R">>
Y2000 == <<"2", "0", "0", "0">>
Y2001 == <<"2", "0", "0", "1">>
Y2002 == <<"2", "0", "0", "2">>

\* a GDP cell that is no number
Missing == <<"n", "a", "n">>

\* the rows of the input file, as cells in header order.  DE has 5, 9 and
\* 5 in three successive years, each with a variant whose GDP is missing;
\* FR has one year, with and without GDP; then a row without country, a row
\* without year and a row whose year is no number
DataRows ==
    ({DE} \X {Y2000, Y2002} \X {<<"5">>, Missing})
    \cup ({DE} \X {Y2001} \X {<<"9">>, Missing})
    \cup ({FR} \X {Y2000} \X {<<"5">>, Missing})
    \cup {<<<<>>, Y2000, <<"5">>>>, <<DE, <<>>, <<"5">>>>, <<DE, <<"x">>, <<"5">>>>}

\* the table of spec section 8: Germany 2000 "1.000,5", Germany 2001 "1100"
Germany == <<"G", "e", "r", "m", "a", "n", "y">>

GermanyTable ==
    [header |-> <<ColCountryName, ColYear, ColGDP>>,
     rows   |-> << <<Germany, Y2000, <<"1", ".", "0", "0", "0", ",", "5">>>>,
                   <<Germany, Y2001, <<"1", "1", "0", "0">>>> >>]

\* a row of DataRows with its GDP cell moved to the front
GdpFirst(row) == <<row[3], row[1], row[2]>>

Tables ==
    {[header |-> h, rows |-> rs] :
        h \in Headers, rs \in UNION {[1..n -> DataRows] : n \in 0..MaxRows}}
    \cup {GermanyTable}
    \cup {[header |-> RealGdpHeader, rows |-> <<r>>] : r \in DataRows}
    \cup {[header |-> GdpFirstHeader, rows |-> <<GdpFirst(r)>>] : r \in DataRows}

\* r[key] on a parsed row: the cell under the column named key, undefined
\* when no column has that name (or key is undefined)
Cell(header, row, key) ==
    IF \E i \in DOMAIN header : header[i] = key
    THEN row[CHOOSE i \in DOMAIN header :
                 header[i] = key /\ \A j \in (i + 1)..Len(header) : header[j] # key]
    ELSE Undefined

\* Object.keys(rows[0] || {})
KeysOf(t) == IF t.rows = <<>> THEN <<>> ELSE t.header

\* -------------------------------------------------------- column inference

\* /country/i.test(k), /year/i.test(k), /yr|year/i.test(k)
IsCountryName(k) == TestCI(k, <<"c", "o", "u", "n", "t", "r", "y">>)

IsYearName(k) == TestCI(k, <<"y", "e", "a", "r">>)

IsYrName(k) == TestCI(k, <<"y", "r">>) \/ IsYearName(k)

\* /^GDP$/i.test(k), /gdp/i.test(k), /^GDP($|[^a-z])/i.test(k)
IsGdpExact(k) == toLowerCase(k) = <<"g", "d", "p">>

IsGdpName(k) == TestCI(k, <<"g", "d", "p">>)

IsGdpPrefix(k) ==
    /\ MatchAt(toLowerCase(k), 1, <<"g", "d", "p">>)
    /\ (Len(k) = 3 \/ ~IsLetter(k[4]))

\* k => /Gross domestic product|GDP/i : the callback returns the regular
\* expression itself, which is truthy, and never tests k
ReturnsRegExp(k) == TRUE

\* script.js lines 51-53; the table has a first row here
countryKey1(t) ==
    OrElse(find(SelectSeq(t.header, IsCountryName)),
           IF Len(t.header) >= 2 THEN t.header[2] ELSE Undefined)

yearKey1(t) == OrElse(find(SelectSeq(t.header, IsYearName)), find(SelectSeq(t.header, IsYrName)))

gdpKey1(t) == OrElse(find(SelectSeq(t.header, IsGdpExact)), find(SelectSeq(t.header, IsGdpName)))

\* script.js lines 283-285; the table has a first row here
countryKey2(t) == OrElse(find(SelectSeq(t.header, IsCountryName)), ColCountryName)

yearKey2(t) == OrElse(find(SelectSeq(t.header, IsYearName)), ColYear)

gdpKey2(t) == OrElse(find(SelectSeq(t.header, IsGdpExact)), find(SelectSeq(t.header, IsGdpName)))

\* part_000 lines 38-41
countryKey3(t) == OrElse(find(SelectSeq(KeysOf(t), IsCountryName)), ColCountryName)

yearKey3(t) == OrElse(find(SelectSeq(KeysOf(t), IsYearName)), ColYear)

gdpKey3(t) ==
    OrElse(OrElse(find(SelectSeq(KeysOf(t), IsGdpPrefix)), find(SelectSeq(KeysOf(t), ReturnsRegExp))),
           ColGDP)

\* ------------------------------------------------------------ row cleaning

\* r => r.country && !isNaN(r.year)
KeepRow(r) == Truthy(r.country) /\ ~isNaN(r.year)

\* script.js lines 56-61 (and, word for word, lines 288-293): the country
\* cell as it is, +cell for the year, parseNum(cell) for the GDP
Record12(h, r, ck, yk, gk) ==
    [country |-> Cell(h, r, ck),
     year    |-> ToNumber(Cell(h, r, yk)),
     gdp     |-> parseNum(Cell(h, r, gk))]

Clean12(t, ck, yk, gk) ==
    SelectSeq([i \in DOMAIN t.rows |-> Record12(t.header, t.rows[i], ck, yk, gk)],
              KeepRow)

rows1(t) == Clean12(t, countryKey1(t), yearKey1(t), gdpKey1(t))

rows2(t) == Clean12(t, countryKey2(t), yearKey2(t), gdpKey2(t))

\* part_000 lines 43-47: the trimmed country cell, parseInt of the trimmed
\* year cell || NaN, parseNum(cell) for the GDP
TrimOrEmpty(c) == IF Truthy(c) THEN trim(c) ELSE <<>>

Record3(h, r, ck, yk, gk) ==
    [country |-> TrimOrEmpty(Cell(h, r, ck)),
     year    |-> OrNaN(parseInt(trim(OrElse(Cell(h, r, yk), <<>>)))),
     gdp     |-> parseNum(Cell(h, r, gk))]

Clean3(t, ck, yk, gk) ==
    SelectSeq([i \in DOMAIN t.rows |-> Record3(t.header, t.rows[i], ck, yk, gk)],
              KeepRow)

cleaned3(t) == Clean3(t, countryKey3(t), yearKey3(t), gdpKey3(t))

\* ------------------------------------------------------- waterfall builders

\* Number.isFinite(v) ? v : 0
FiniteOrZero(x) == IF x.nan THEN Num(0) ELSE x

\* (delta >= 0 ? "increase" : "decrease")
DeltaType(delta) == IF GeqZero(delta) THEN "increase" ELSE "decrease"

\* d => !isNaN(d.GDP)
HasGdp(d) == ~isNaN(d.gdp)

\* script.js lines 85-96 (and lines 315-325): the base and the deltas of a
\* sorted series (the label, String(year), is left out: it repeats the year)
DeltaItem(year, delta) ==
    [year |-> year, value |-> delta, type |-> DeltaType(delta)]

BaseAndDeltas(arr) ==
    [i \in DOMAIN arr |->
        IF i = 1
        THEN [year |-> arr[1].year, value |-> arr[1].gdp, type |-> "base"]
        ELSE DeltaItem(arr[i].year, Minus(arr[i].gdp, arr[i - 1].gdp))]

\* script.js lines 79-97: the rows with a valid GDP only
buildWaterfall1(grp, country) ==
    BaseAndDeltas(SelectSeq(SortByYear(GetOrEmpty(grp, country)), HasGdp))

\* script.js lines 311-326: every row of the country, valid GDP or not
buildWaterfall2(grp, country) ==
    BaseAndDeltas(SortByYear(GetOrEmpty(grp, country)))

\* the running total after item i, script.js lines 116-129
RECURSIVE Cum1(_, _)
Cum1(items, i) ==
    IF i = 0 THEN Num(0)
    ELSE IF i = 1 THEN FiniteOrZero(items[1].value)
    ELSE Plus(Cum1(items, i - 1), FiniteOrZero(items[i].value))

Bar(it, start, end) ==
    [type |-> it.type, year |-> it.year, value |-> it.value,
     start |-> start, end |-> end, cumulative |-> end]

computed1(items) ==
    [i \in DOMAIN items |-> Bar(items[i], Cum1(items, i - 1), Cum1(items, i))]

\* the running total after item i, script.js lines 340-353
RECURSIVE Cum2(_, _)
Cum2(items, i) ==
    IF i = 0 THEN Num(0)
    ELSE IF i = 1 THEN items[1].value
    ELSE Plus(Cum2(items, i - 1), items[i].value)

computed2(items) ==
    [i \in DOMAIN items |-> Bar(items[i], Cum2(items, i - 1), Cum2(items, i))]

\* part_000 lines 83-96: cur = gdp || 0, prev = the gdp before || 0
StepItem(year, prev, cur) ==
    [type |-> DeltaType(Minus(cur, prev)), year |-> year,
     value |-> Minus(cur, prev), start |-> prev, end |-> cur]

\* part_000 lines 70-98
computeWaterfall(dataSorted) ==
    [i \in DOMAIN dataSorted |->
        IF i = 1
        THEN [type |-> "start", year |-> dataSorted[1].year,
              value |-> dataSorted[1].gdp,
              start |-> Num(0), end |-> OrZero(dataSorted[1].gdp)]
        ELSE StepItem(dataSorted[i].year, OrZero(dataSorted[i - 1].gdp),
                      OrZero(dataSorted[i].gdp))]

\* ------------------------------------------------------------------- state

VARIABLES
    script,       \* which version of the script the page runs
    table,        \* dsv.parse(raw): the header and the rows of the file
    phase,        \* "fetching", "ready" (callback ran to its end), "halted"
    cleaned,      \* the records that passed the row filter
    grouped,      \* d3.group of cleaned, by country
    countries,    \* the options of #countrySelect
    selectValue,  \* the value of #countrySelect
    chart,        \* what the svg holds: bars, empty-state text, title
    handlers,     \* the event handlers registered so far
    reports       \* the error reports made to the user, in order

\* the normalizer applied to a string, and again to its own result
VARIABLES
    given,        \* the string
    stage,        \* "given", "once", "twice"; "idle" while the page runs
    once,         \* parseNum(given)
    twice         \* parseNum(once)

\* the multi-line chart (part_001)
VARIABLES
    lineTable,     \* dsv.parse(rawText): the header and the rows of the file
    linePhase,     \* "fetching", "ready", "halted"; "idle" while others run
    filtered,      \* the records that passed the row filter, in table order
    series,        \* each country's records, sorted by year
    options,       \* the options of #countrySelect
    selected,      \* the selected options, in the order of the options
    xDomain,       \* x.domain()
    brushXDomain,  \* brushX.domain()
    lines,         \* the drawn lines: for each country, its path
    resetDisabled, \* whether #resetZoom is disabled
    alerts         \* the alerts of the chart's catch handler, in order

pageVars == <<script, table, phase, cleaned, grouped, countries, selectValue,
              chart, handlers, reports>>

parseVars == <<given, stage, once, twice>>

lineVars == <<lineTable, linePhase, filtered, series, options, selected,
              xDomain, brushXDomain, lines, resetDisabled, alerts>>

vars == <<pageVars, parseVars, lineVars>>

\* the multi-line chart before its script runs
LineIdle ==
    /\ lineTable = [header |-> <<>>, rows |-> <<>>]
    /\ linePhase = "idle"
    /\ filtered = <<>>
    /\ series = <<>>
    /\ options = <<>>
    /\ selected = <<>>
    /\ xDomain = <<NaN, NaN>>
    /\ brushXDomain = <<NaN, NaN>>
    /\ lines = <<>>
    /\ resetDisabled = TRUE
    /\ alerts = <<>>

\* the normalizer before it is applied
ParseIdle ==
    /\ given = <<>>
    /\ stage = "idle"
    /\ once = NotANumber
    /\ twice = NotANumber

Scripts == {"script1", "script2", "part000"}

\* the svg before the first draw; drawn is the argument of the last draw
EmptyChart == [bars |-> <<>>, emptyText |-> FALSE, title |-> <<>>, drawn |-> <<>>]

\* a draw that found nothing to show and cleared nothing
StaleState(country) == [chart EXCEPT !.emptyText = TRUE, !.drawn = <<country>>]

\* the svg after a draw that found nothing to show and cleared the rest
EmptyState(country) ==
    [bars |-> <<>>, emptyText |-> TRUE, title |-> <<>>, drawn |-> <<country>>]

\* the svg after a draw that put up the bars and the title
Waterfall(country, bars) ==
    [bars |-> bars, emptyText |-> FALSE, title |-> <<country>>,
     drawn |-> <<country>>]

\* select.property("value", countries[0]) and reading it back: an empty
\* select has the value ""
FirstOption(cs) == IF cs = <<>> THEN <<>> ELSE cs[1]

\* script.js lines 101-217: every bar, label, connector and title goes, then
\* either the empty-state title or the bars and the title are added
Render1(country, items) ==
    IF Len(items) = 0 THEN EmptyState(country)
    ELSE Waterfall(country, computed1(items))

\* script.js lines 99-100
draw1(grp, country) == Render1(country, buildWaterfall1(grp, country))

\* script.js lines 331-453: without items only the .no-data text is
\* replaced; with items the bars are joined to the new items (entered,
\* updated or removed by label), the .no-data text goes, the title is new
Render2(country, items, old) ==
    IF Len(items) = 0
    THEN [old EXCEPT !.emptyText = TRUE, !.drawn = <<country>>]
    ELSE Waterfall(country, computed2(items))

\* script.js lines 329-330
draw2(grp, country, old) == Render2(country, buildWaterfall2(grp, country), old)

\* part_000 lines 105-216: either the empty-state text or the title and
\* the bars are added
RenderRows(countryName, rows) ==
    IF Len(rows) = 0 THEN EmptyState(countryName)
    ELSE Waterfall(countryName, computeWaterfall(SortByYear(rows)))

\* part_000 lines 100-104: chartG is emptied first
drawForCountry(grp, countryName) ==
    RenderRows(countryName, GetOrEmpty(grp, countryName))

Init ==
    /\ script \in Scripts
    /\ table \in Tables
    /\ phase = "fetching"
    /\ cleaned = <<>>
    /\ grouped = <<>>
    /\ countries = <<>>
    /\ selectValue = <<>>
    /\ chart = EmptyChart
    /\ handlers = {}
    /\ reports = <<>>
    /\ given = <<>>
    /\ stage = "idle"
    /\ once = NotANumber
    /\ twice = NotANumber
    /\ LineIdle

\* the callback ran to its end: data, select, first draw, both handlers
Ready(rows, grp, cs, ch) ==
    /\ phase' = "ready"
    /\ cleaned' = rows
    /\ grouped' = grp
    /\ countries' = cs
    /\ selectValue' = FirstOption(cs)
    /\ chart' = ch
    /\ handlers' = {"change", "reset"}
    /\ UNCHANGED <<script, table, reports>>
    /\ UNCHANGED <<parseVars, lineVars>>

\* a page that reports and then fetches again
ReportAndRetry(report) ==
    /\ reports' = Append(reports, report)
    /\ UNCHANGED <<script, table, phase, cleaned, grouped, countries,
                   selectValue, chart, handlers>>
    /\ UNCHANGED <<parseVars, lineVars>>

\* the callback stopped after one report to the user
Halted(report) ==
    /\ phase' = "halted"
    /\ reports' = Append(reports, report)
    /\ UNCHANGED <<script, table, cleaned, grouped, countries, selectValue,
                   chart, handlers>>
    /\ UNCHANGED <<parseVars, lineVars>>

\* script.js lines 63-229: group, select, first draw, handlers
Start1(rows, grp, cs) == Ready(rows, grp, cs, draw1(grp, FirstOption(cs)))

Begin1(rows) == Start1(rows, group(rows), SortedCountries(rows))

\* script.js lines 41-229: d3.text(...).then(raw => ...)
Load1 ==
    /\ script = "script1"
    /\ phase = "fetching"
    /\ IF Len(table.rows) = 0
       THEN Halted("alert: CSV leer oder Fehler beim Parsen.")
       ELSE Begin1(rows1(table))

\* script.js lines 295-467
Start2(rows, grp, cs) ==
    Ready(rows, grp, cs, draw2(grp, FirstOption(cs), EmptyChart))

Begin2(rows) == Start2(rows, group(rows), SortedCountries(rows))

\* script.js lines 267-472: Object.keys(data[0]) throws on an empty table,
\* and the promise's catch handler (lines 469-472) reports it
Load2 ==
    /\ script = "script2"
    /\ phase = "fetching"
    /\ IF Len(table.rows) = 0
       THEN Halted("alert: Konnte merged(2).csv nicht laden.")
       ELSE Begin2(rows2(table))

\* part_000 lines 49-230
Start3(rows, grp, cs) == Ready(rows, grp, cs, drawForCountry(grp, FirstOption(cs)))

Begin3(rows) == Start3(rows, group(rows), SortedCountries(rows))

\* part_000 lines 33-230
Load3 ==
    /\ script = "part000"
    /\ phase = "fetching"
    /\ Begin3(cleaned3(table))

\* the file cannot be fetched: the catch handler of the promise
\* (script.js lines 231-234 and 469-472, part_000 lines 232-235)
LoadFailed ==
    /\ phase = "fetching"
    /\ Halted(IF script = "part000"
              THEN "text: Fehler beim Laden der Daten."
              ELSE "alert: Konnte merged(2).csv nicht laden.")

\* the user picks another option c of #countrySelect
Select(c, ch) ==
    /\ "change" \in handlers
    /\ c # selectValue
    /\ selectValue' = c
    /\ chart' = ch
    /\ grouped' = StoredAfterSort(grouped, c)
    /\ UNCHANGED <<script, table, phase, cleaned, countries, handlers, reports>>
    /\ UNCHANGED <<parseVars, lineVars>>

\* script.js lines 223-225
Change1 ==
    /\ script = "script1"
    /\ \E c \in Range(countries) : Select(c, draw1(grouped, c))

\* script.js lines 459-462
Change2 ==
    /\ script = "script2"
    /\ \E c \in Range(countries) : Select(c, draw2(grouped, c, chart))

\* part_000 lines 222-225
Change3 ==
    /\ script = "part000"
    /\ \E c \in Range(countries) : Select(c, drawForCountry(grouped, c))

\* a click on #resetView redraws the selected country
Redraw(ch) ==
    /\ "reset" \in handlers
    /\ chart' = ch
    /\ grouped' = StoredAfterSort(grouped, selectValue)
    /\ UNCHANGED <<script, table, phase, cleaned, countries, selectValue,
                   handlers, reports>>
    /\ UNCHANGED <<parseVars, lineVars>>

\* script.js lines 227-229
Reset1 == script = "script1" /\ Redraw(draw1(grouped, selectValue))

\* script.js lines 465-467
Reset2 == script = "script2" /\ Redraw(draw2(grouped, selectValue, chart))

\* part_000 lines 227-230
Reset3 == script = "part000" /\ Redraw(drawForCountry(grouped, selectValue))

Next ==
    \/ Load1 \/ Load2 \/ Load3 \/ LoadFailed
    \/ Change1 \/ Change2 \/ Change3
    \/ Reset1 \/ Reset2 \/ Reset3

Spec == Init /\ [][Next]_vars

\* ------------------------------------------- the normalizer on strings

MaxLen == 4

\* digits, both decimal separators, signs, the exponent letter, a space
\* and two letters, which spell nan
Chars == {"0", "1", "2", ".", ",", "-", "+", "e", " ", "n", "a"}

Strings == UNION {[1..n -> Chars] : n \in 0..MaxLen}

\* the page of the first program, before its file arrives
PageIdle ==
    /\ script = "script1"
    /\ table = GermanyTable
    /\ phase = "fetching"
    /\ cleaned = <<>>
    /\ grouped = <<>>
    /\ countries = <<>>
    /\ selectValue = <<>>
    /\ chart = EmptyChart
    /\ handlers = {}
    /\ reports = <<>>

ParseInit ==
    /\ PageIdle
    /\ given \in Strings
    /\ stage = "given"
    /\ once = NotANumber
    /\ twice = NotANumber
    /\ LineIdle

\* parseNum(given)
NormalizeOnce ==
    /\ stage = "given"
    /\ once' = normalize(given)
    /\ stage' = "once"
    /\ UNCHANGED <<given, twice, pageVars, lineVars>>

\* parseNum(once): String(once) is normalized like any string
NormalizeTwice ==
    /\ stage = "once"
    /\ twice' = normalize(StringOf(once))
    /\ stage' = "twice"
    /\ UNCHANGED <<given, once, pageVars, lineVars>>

ParseNext == NormalizeOnce \/ NormalizeTwice

ParseSpec == ParseInit /\ [][ParseNext]_vars

\* --------------------------------------- the multi-line chart (part_001)

MaxLineRows == 2

\* a year that is no whole number
Y2000Point6 == <<"2", "0", "0", "0", ".", "6">>

\* rows of two countries, and a row without a country
LineRows ==
    ({DE, FR} \X {Y2000, Y2002} \X {<<"5">>})
    \cup {<<DE, Y2000Point6, <<"5">>>>, <<FR, Y2001, Missing>>, <<<<>>, Y2001, <<"5">>>>}

LineTables ==
    {[header |-> GdpHeader, rows |-> rs] :
        rs \in UNION {[1..n -> LineRows] : n \in 0..MaxLineRows}}

ColGrossDomesticProduct ==
    <<" ", "G", "r", "o", "s", "s", " ", "d", "o", "m", "e", "s",
      "t", "i", "c", " ", "p", "r", "o", "d", "u", "c", "t", " ",
      "(", "c", "u", "r", "r", "e", "n", "t", " ", "U", "S", "$",
      ")", " ">>

ColGdpCurrent ==
    <<"G", "D", "P", " ", "(", "c", "u", "r", "r", "e", "n", "t",
      ")">>

UnitedStates ==
    <<"U", "n", "i", "t", "e", "d", " ", "S", "t", "a", "t", "e",
      "s">>

\* a ?? b
Nullish(a, b) == IF a = Undefined THEN b ELSE a

\* row["GDP"] ?? row[" Gross domestic product (current US$) "]
\*            ?? row["GDP (current)"] ?? row["GDP"]
GdpCell(h, r) ==
    Nullish(Nullish(Nullish(Cell(h, r, ColGDP), Cell(h, r, ColGrossDomesticProduct)),
                    Cell(h, r, ColGdpCurrent)),
            Cell(h, r, ColGDP))

\* part_001 lines 50-51
countryKey4(h) == OrElse(find(SelectSeq(h, IsCountryName)), ColCountryName)

yearKey4(h) == OrElse(find(SelectSeq(h, IsYearName)), ColYear)

\* part_001 lines 65-68: the country cell as it is, +cell for the year,
\* parseNum(cell) for the GDP
Record4(h, r) ==
    [country |-> Cell(h, r, countryKey4(h)),
     year    |-> ToNumber(Cell(h, r, yearKey4(h))),
     gdp     |-> parseNum(GdpCell(h, r))]

\* part_001 lines 48-78
filtered4(t) ==
    SelectSeq([i \in DOMAIN t.rows |-> Record4(t.header, t.rows[i])], KeepRow)

\* part_001 lines 85-89: each country's rows, sorted by year
SeriesOf(grp) == [c \in DOMAIN grp |-> SortByYear(grp[c])]

\* part_001 lines 100-102
defaultPick(cs) ==
    <<IF cs = <<>> THEN Undefined ELSE cs[1]>>
    \o (IF UnitedStates \in Range(cs) THEN <<UnitedStates>> ELSE <<>>)

\* part_001 line 103
DefaultSelected(cs) == SelectSeq(cs, LAMBDA c : c \in Range(defaultPick(cs)))

\* Math.max and Math.min: NaN if either is NaN
MathMax(a, b) ==
    IF a.nan \/ b.nan THEN NaN ELSE IF a.v >= b.v THEN a ELSE b

MathMin(a, b) ==
    IF a.nan \/ b.nan THEN NaN ELSE IF a.v <= b.v THEN a ELSE b

\* Math.round: to the nearest whole number, a half goes up
MathRound(a) == IF a.nan THEN NaN ELSE Num(((a.v + 5) \div 10) * 10)

\* d3.min and d3.max of the years: undefined, as a number NaN, if none
RECURSIVE d3min(_)
d3min(rows) ==
    IF rows = <<>> THEN NaN
    ELSE IF Len(rows) = 1 THEN rows[1].year
    ELSE MathMin(rows[1].year, d3min(Tail(rows)))

RECURSIVE d3max(_)
d3max(rows) ==
    IF rows = <<>> THEN NaN
    ELSE IF Len(rows) = 1 THEN rows[1].year
    ELSE MathMax(rows[1].year, d3max(Tail(rows)))

\* d3.extent(allYears)
extent(rows) == <<d3min(rows), d3max(rows)>>

\* the years at which line.defined holds
DefinedYears(values) ==
    [i \in DOMAIN SelectSeq(values, LAMBDA r : ~isNaN(r.gdp)) |->
        SelectSeq(values, LAMBDA r : ~isNaN(r.gdp))[i].year]

\* line(d.values) under the x domain dom
Path(values, dom) == [over |-> dom, years |-> DefinedYears(values)]

\* part_001 lines 145-235 on the lines.  The path of an entering line is
\* computed in the call, under the x domain of that moment (line 178).  The
\* path of a line that stays is computed when its transition starts (line
\* 212), which is after the handler that called update has returned.
update(ser, drawn, selectedCountries, atCall, atStart) ==
    [c \in {k \in DOMAIN ser : k \in Range(selectedCountries)} |->
        Path(ser[c], IF c \in DOMAIN drawn THEN atStart ELSE atCall)]

\* part_001 lines 239-245: the first six selected, or the first option
Picked(cs, sel) ==
    IF sel = <<>> THEN <<IF cs = <<>> THEN Undefined ELSE cs[1]>>
    ELSE SubSeq(sel, 1, IF Len(sel) < 6 THEN Len(sel) ELSE 6)

readSelectionAndUpdate(ser, drawn, cs, sel, atCall, atStart) ==
    update(ser, drawn, Picked(cs, sel), atCall, atStart)

LineInit ==
    /\ PageIdle
    /\ ParseIdle
    /\ lineTable \in LineTables
    /\ linePhase = "fetching"
    /\ filtered = <<>>
    /\ series = <<>>
    /\ options = <<>>
    /\ selected = <<>>
    /\ xDomain = <<NaN, NaN>>
    /\ brushXDomain = <<NaN, NaN>>
    /\ lines = <<>>
    /\ resetDisabled = TRUE
    /\ alerts = <<>>

\* part_001 lines 80-293 and 319-322, for the records rows
LineStart(rows, ser, cs) ==
    /\ linePhase' = "ready"
    /\ filtered' = rows
    /\ series' = ser
    /\ options' = cs
    /\ selected' = DefaultSelected(cs)
    /\ xDomain' = extent(rows)
    /\ brushXDomain' = extent(rows)
    /\ lines' = readSelectionAndUpdate(ser, <<>>, cs, DefaultSelected(cs),
                                       extent(rows), extent(rows))
    /\ resetDisabled' = TRUE
    /\ UNCHANGED <<lineTable, alerts, pageVars, parseVars>>

LineBegin(rows) == LineStart(rows, SeriesOf(group(rows)), SortedCountries(rows))

\* part_001 lines 40-322: d3.text("data/gdp.csv").then(rawText => ...)
LineLoad ==
    /\ linePhase = "fetching"
    /\ LineBegin(filtered4(lineTable))

\* part_001 lines 324-327: the file cannot be fetched
LineLoadFailed ==
    /\ linePhase = "fetching"
    /\ linePhase' = "halted"
    /\ alerts' = Append(alerts, "alert: Could not load data/gdp.csv.")
    /\ UNCHANGED <<lineTable, filtered, series, options, selected, xDomain,
                   brushXDomain, lines, resetDisabled, pageVars, parseVars>>

\* the ways to select among the options
Selections(cs) ==
    {SelectSeq(cs, LAMBDA c : c \in S) : S \in SUBSET Range(cs)}

\* part_001 lines 252-257: the lines are drawn, then the x domain is set
LineChange ==
    /\ linePhase = "ready"
    /\ \E sel \in Selections(options) :
        /\ sel # selected
        /\ selected' = sel
        /\ lines' = readSelectionAndUpdate(series, lines, options, sel,
                                           xDomain, extent(filtered))
    /\ xDomain' = extent(filtered)
    /\ resetDisabled' = FALSE
    /\ UNCHANGED <<lineTable, linePhase, filtered, series, options,
                   brushXDomain, alerts, pageVars, parseVars>>

\* the pairs brushX.invert(x0), brushX.invert(x1) for x0 < x1 on the bar:
\* two points of the brush's domain, in the order of the domain's ends
Inverted(dom) ==
    IF dom[1].nan \/ dom[2].nan THEN {<<NaN, NaN>>}
    ELSE IF dom[1].v = dom[2].v THEN {<<dom[1], dom[1]>>}
    ELSE IF dom[1].v < dom[2].v
    THEN {<<Num(ab[1]), Num(ab[2])>> :
            ab \in {p \in (dom[1].v .. dom[2].v) \X (dom[1].v .. dom[2].v) :
                       p[1] < p[2]}}
    ELSE {<<Num(ab[1]), Num(ab[2])>> :
            ab \in {p \in (dom[2].v .. dom[1].v) \X (dom[2].v .. dom[1].v) :
                       p[1] > p[2]}}

Zoomed(rows, year0, year1) ==
    <<MathMax(d3min(rows), year0), MathMin(d3max(rows), year1)>>

\* part_001 lines 271-281
BrushEnd ==
    /\ linePhase = "ready"
    /\ \E ab \in Inverted(brushXDomain) :
        /\ xDomain' = Zoomed(filtered, MathRound(ab[1]), MathRound(ab[2]))
        /\ lines' = readSelectionAndUpdate(
                        series, lines, options, selected,
                        Zoomed(filtered, MathRound(ab[1]), MathRound(ab[2])),
                        Zoomed(filtered, MathRound(ab[1]), MathRound(ab[2])))
    /\ resetDisabled' = FALSE
    /\ UNCHANGED <<lineTable, linePhase, filtered, series, options, selected,
                   brushXDomain, alerts, pageVars, parseVars>>

\* part_001 lines 287-293; a disabled button is not clicked
ResetZoom ==
    /\ linePhase = "ready"
    /\ ~resetDisabled
    /\ xDomain' = extent(filtered)
    /\ lines' = readSelectionAndUpdate(series, lines, options, selected,
                                       extent(filtered), extent(filtered))
    /\ resetDisabled' = TRUE
    /\ UNCHANGED <<lineTable, linePhase, filtered, series, options, selected,
                   brushXDomain, alerts, pageVars, parseVars>>

\* part_001 lines 319-322
Resize ==
    /\ linePhase = "ready"
    /\ brushXDomain' = xDomain
    /\ UNCHANGED <<lineTable, linePhase, filtered, series, options, selected,
                   xDomain, lines, resetDisabled, alerts, pageVars, parseVars>>

LineNext ==
    \/ LineLoad \/ LineLoadFailed
    \/ LineChange \/ BrushEnd \/ ResetZoom \/ Resize

LineSpec == LineInit /\ [][LineNext]_vars

\* ------------------------------------------------------------------ claims

\* the country whose bars the chart holds (the title goes up with the bars)
BarsCountry == chart.title[1]

IsBase(it) == it.type \in {"base", "start"}

\* the country's records in year order, and those of them with a valid GDP
Series(c) == SortByYear(GetOrEmpty(grouped, c))

ValidSeries(c) == SelectSeq(Series(c), HasGdp)

\* C1: in a built waterfall every item after the first starts where the
\* item before it ends, whatever the country and whether or not some of
\* its records have a missing GDP.
C1_ChainContinuity ==
    \A i \in 2..Len(chart.bars) :
        NumEq(chart.bars[i].start, chart.bars[i - 1].end)

\* C2: the Base item is a record with a valid GDP and the earliest year
\* among the country's records with a valid GDP; a record with a missing
\* GDP is never the Base item.
C2_BaseIsEarliestValid ==
    chart.bars # <<>> =>
        /\ ~isNaN(chart.bars[1].value)
        /\ \E r \in Range(ValidSeries(BarsCountry)) :
              /\ NumEq(r.year, chart.bars[1].year)
              /\ NumEq(r.gdp, chart.bars[1].value)
              /\ \A q \in Range(ValidSeries(BarsCountry)) : q.year.v >= r.year.v

\* some record with a missing GDP lies between two with a valid one
Sandwiched(recs) ==
    \E i, j, k \in DOMAIN recs :
        i < j /\ j < k /\ HasGdp(recs[i]) /\ ~HasGdp(recs[j]) /\ HasGdp(recs[k])

\* C3: when a record with a missing GDP lies between two valid records of
\* the year-sorted series, it yields no item, and every delta is the GDP of
\* a valid record minus the GDP of the valid record before it.
C3_SkipInvalid ==
    (chart.bars # <<>> /\ Sandwiched(Series(BarsCountry))) =>
        /\ Len(chart.bars) = Len(ValidSeries(BarsCountry))
        /\ \A i \in 2..Len(chart.bars) :
              i <= Len(ValidSeries(BarsCountry)) =>
                  NumEq(chart.bars[i].value,
                        Minus(ValidSeries(BarsCountry)[i].gdp,
                              ValidSeries(BarsCountry)[i - 1].gdp))

\* C4: a built waterfall has exactly one Base item, the first; it starts at
\* 0 and its end, its cumulative and its value are the same number.
C4_OneBaseFirst ==
    chart.bars # <<>> =>
        /\ IsBase(chart.bars[1])
        /\ \A i \in 2..Len(chart.bars) : ~IsBase(chart.bars[i])
        /\ NumEq(chart.bars[1].start, Num(0))
        /\ NumEq(chart.bars[1].end, chart.bars[1].value)
        /\ "cumulative" \in DOMAIN chart.bars[1] =>
               NumEq(chart.bars[1].cumulative, chart.bars[1].end)

\* C5: for every item of a built waterfall, the Base item included, end
\* minus start is the item's value.
C5_EndMinusStartIsDelta ==
    \A i \in DOMAIN chart.bars :
        NumEq(Minus(chart.bars[i].end, chart.bars[i].start), chart.bars[i].value)

\* C6: an item that is not the Base item is an Increase exactly when its
\* delta is >= 0 and a Decrease exactly when its delta is < 0.
C6_KindFollowsSign ==
    \A i \in DOMAIN chart.bars :
        ~IsBase(chart.bars[i]) =>
            /\ chart.bars[i].type = "increase" <=> GeqZero(chart.bars[i].value)
            /\ chart.bars[i].type = "decrease" <=> LtZero(chart.bars[i].value)

\* C7: for the table Germany 2000 "1.000,5", Germany 2001 "1100" the GDP
\* values are 1000.5 and 1100 and the waterfall is a Base item ending at
\* 1000.5 and an Increase of 99.5 ending at 1100.
C7_GermanyExample ==
    (table = GermanyTable /\ phase = "ready") =>
        /\ Len(cleaned) = 2
        /\ NumEq(cleaned[1].gdp, Num(10005))
        /\ NumEq(cleaned[2].gdp, Num(11000))
        /\ Len(chart.bars) = 2
        /\ IsBase(chart.bars[1])
        /\ NumEq(chart.bars[1].end, Num(10005))
        /\ chart.bars[2].type = "increase"
        /\ NumEq(chart.bars[2].value, Num(995))
        /\ NumEq(chart.bars[2].end, Num(11000))

\* the text is an integer: digits, after an optional sign, and nothing else
IsIntegerText(s) ==
    /\ trim(s) # <<>>
    /\ DigitRun(trim(s), IF HasSign(trim(s)) THEN 2 ELSE 1) >= 1
    /\ DigitRun(trim(s), IF HasSign(trim(s)) THEN 2 ELSE 1)
         = Len(trim(s)) - (IF HasSign(trim(s)) THEN 1 ELSE 0)

\* the rows of the table whose country cell (the first) is not empty and
\* whose year cell (the second) is an integer
RowsToKeep ==
    {i \in DOMAIN table.rows :
        table.rows[i][1] # <<>> /\ IsIntegerText(table.rows[i][2])}

\* C8: a raw row becomes a record if and only if its country is not empty
\* and its year is an integer; every other row is dropped before grouping.
C8_KeptIffCountryAndYear ==
    phase = "ready" => Len(cleaned) = Cardinality(RowsToKeep)

NoGdpColumn(h) == \A i \in DOMAIN h : ~IsGdpName(h[i])

\* C9: without a GDP-like column every record's GDP is not-a-number, no
\* country has a waterfall, and a drawn country shows the empty state.
C9_NoGdpColumnNoData ==
    (phase = "ready" /\ NoGdpColumn(table.header)) =>
        /\ \A i \in DOMAIN cleaned : isNaN(cleaned[i].gdp)
        /\ chart.bars = <<>>
        /\ chart.emptyText

\* C10: selecting a country without a usable record shows the empty-state
\* message and leaves the page running with its change handler; selecting a
\* country that has usable records draws that country's waterfall.
C10_EmptyStateDoesNotHalt ==
    [][(phase = "ready" /\ selectValue' # selectValue) =>
          /\ phase' = "ready"
          /\ "change" \in handlers'
          /\ IF ValidSeries(selectValue') = <<>>
             THEN chart'.emptyText /\ chart'.bars = <<>>
             ELSE /\ ~chart'.emptyText
                  /\ chart'.title = <<selectValue'>>
                  /\ Len(chart'.bars) = Len(ValidSeries(selectValue'))]_vars

\* the first program of script.js and part_000 keep the chain continuous
\* and type every delta by its sign
ChainContinuityElsewhere == script # "script2" => C1_ChainContinuity

KindFollowsSignElsewhere == script # "script2" => C6_KindFollowsSign

\* ------------------------------------------------- the diverging runs

GdpTable(rs) == [header |-> GdpHeader, rows |-> rs]

\* DE 2000 without GDP, then DE 2001 with 9
MissingFirst == GdpTable(<<<<DE, Y2000, Missing>>, <<DE, Y2001, <<"9">>>>>>)

\* DE 2000 with 5, DE 2001 without GDP, DE 2002 with 5
MissingBetween ==
    GdpTable(<<<<DE, Y2000, <<"5">>>>, <<DE, Y2001, Missing>>, <<DE, Y2002, <<"5">>>>>>)

\* DE with a GDP, FR without
MissingForFR == GdpTable(<<<<DE, Y2000, <<"5">>>>, <<FR, Y2000, Missing>>>>)

\* C1 diverges: the second program of script.js keeps the record without
\* GDP, so the second item starts at not-a-number, which equals nothing.
C1_StartsAtNaN ==
    /\ script = "script2" /\ table = MissingFirst /\ phase = "ready"
    /\ Len(chart.bars) = 2
    /\ isNaN(chart.bars[1].end) /\ isNaN(chart.bars[2].start)

\* C2 diverges: part_000 makes the 2000 record, which has no GDP, the
\* first item although the 2001 record is the earliest valid one.
C2_BaseWithoutGdp ==
    /\ script = "part000" /\ table = MissingFirst /\ phase = "ready"
    /\ chart.bars[1].type = "start"
    /\ chart.bars[1].year = Whole(2000) /\ isNaN(chart.bars[1].value)

\* C3 diverges: part_000 counts the missing GDP of 2001 as 0, so 2001 is
\* a Decrease of 5 and 2002 an Increase of 5 instead of a delta of 0.
C3_ItemForMissing ==
    /\ script = "part000" /\ table = MissingBetween /\ phase = "ready"
    /\ Len(chart.bars) = 3
    /\ chart.bars[2].type = "decrease" /\ chart.bars[2].value = Whole(0 - 5)
    /\ chart.bars[3].type = "increase" /\ chart.bars[3].value = Whole(5)

\* C4 diverges: the first item of part_000 ends at 0 while its value is
\* not-a-number.
C4_BaseEndNotValue ==
    /\ script = "part000" /\ table = MissingFirst /\ phase = "ready"
    /\ chart.bars[1].end = Whole(0) /\ isNaN(chart.bars[1].value)

\* C5 diverges: for that first item end minus start is 0 and the value is
\* not-a-number.
C5_BaseSpanNotValue ==
    /\ script = "part000" /\ table = MissingFirst /\ phase = "ready"
    /\ Minus(chart.bars[1].end, chart.bars[1].start) = Whole(0)
    /\ isNaN(chart.bars[1].value)

\* C6 diverges: in the second program of script.js the delta after a
\* missing GDP is not-a-number, which is not < 0, and the item is a
\* Decrease.
C6_DecreaseOfNaN ==
    /\ script = "script2" /\ table = MissingFirst /\ phase = "ready"
    /\ chart.bars[2].type = "decrease" /\ isNaN(chart.bars[2].value)

\* C7 diverges: "1.000,5" becomes "1.000.5", which parseFloat reads as 1;
\* the Base item ends at 1 and the Increase is 1099.
C7_GermanyReadsOne ==
    /\ table = GermanyTable /\ phase = "ready"
    /\ cleaned[1].gdp = Whole(1)
    /\ chart.bars[1].end = Whole(1)
    /\ chart.bars[2].value = Whole(1099) /\ chart.bars[2].end = Whole(1100)

\* C8 diverges: script.js turns the empty year cell into the year 0 and
\* keeps the row.
C8_EmptyYearKept ==
    /\ script = "script1" /\ phase = "ready"
    /\ table = GdpTable(<<<<DE, <<>>, <<"5">>>>>>)
    /\ Len(cleaned) = 1 /\ cleaned[1].year = Whole(0)
    /\ Len(chart.bars) = 1

\* C9 diverges: without a GDP column part_000 still draws a bar for the
\* country and no empty-state message.
C9_BarWithoutGdpColumn ==
    /\ script = "part000" /\ phase = "ready"
    /\ table = [header |-> NoGdpHeader, rows |-> <<<<DE, Y2000, <<"5">>>>>>]
    /\ Len(chart.bars) = 1 /\ ~chart.emptyText

\* C10 diverges: after FR, which has no usable record, is selected,
\* part_000 shows a bar for FR and no empty-state message.
C10_BarForUnusable ==
    /\ script = "part000" /\ table = MissingForFR /\ phase = "ready"
    /\ selectValue = FR /\ chart.title = <<FR>>
    /\ Len(chart.bars) = 1 /\ ~chart.emptyText

\* ------------------------------------------------- claims C11 to C20

\* C11: when the parsed table has no rows, the load ends with an empty
\* country list and one report of the empty dataset, and it halts: no
\* chart is drawn and no handler is registered.
C11_EmptyTableHalts ==
    [][((Load1 \/ Load2 \/ Load3) /\ table.rows = <<>>) =>
          /\ phase' = "halted"
          /\ countries' = <<>>
          /\ reports' = <<"alert: CSV leer oder Fehler beim Parsen.">>
          /\ chart' = EmptyChart
          /\ handlers' = {}]_vars

\* C11 diverges: on a table without rows part_000 goes on, shows the
\* per-country empty state and registers both handlers.
C11_RunsOnEmptyTable ==
    /\ script = "part000" /\ table.rows = <<>> /\ phase = "ready"
    /\ countries = <<>> /\ reports = <<>>
    /\ chart.emptyText /\ handlers = {"change", "reset"}

\* C12: when the file cannot be fetched or parsed, one report is made to
\* the user and the page halts with no country list, no chart and no
\* handler; nothing happens afterwards, so the load is not tried again.
C12_LoadErrorReportedOnce ==
    [][/\ LoadFailed =>
             /\ Len(reports') = 1
             /\ phase' = "halted"
             /\ countries' = <<>>
             /\ chart' = EmptyChart
             /\ handlers' = {}
       /\ phase = "halted" => UNCHANGED vars]_vars

\* the load of a table with rows has failed
C12_LoadHasFailed ==
    /\ table.rows # <<>> /\ phase = "halted"
    /\ reports \in {<<"alert: Konnte merged(2).csv nicht laden.">>,
                    <<"text: Fehler beim Laden der Daten.">>}

\* the keys the running program picks for the header h
ChosenKeys(h) ==
    CASE script = "script1" ->
           <<countryKey1([header |-> h, rows |-> table.rows]),
             yearKey1([header |-> h, rows |-> table.rows]),
             gdpKey1([header |-> h, rows |-> table.rows])>>
      [] script = "script2" ->
           <<countryKey2([header |-> h, rows |-> table.rows]),
             yearKey2([header |-> h, rows |-> table.rows]),
             gdpKey2([header |-> h, rows |-> table.rows])>>
      [] script = "part000" ->
           <<countryKey3([header |-> h, rows |-> table.rows]),
             yearKey3([header |-> h, rows |-> table.rows]),
             gdpKey3([header |-> h, rows |-> table.rows])>>

\* C13: headers with the same set of column names select the same country,
\* year and GDP columns, and a column whose name contains country, year or
\* gdp (in any case) is selected when there is one.
C13_ColumnsFollowNames ==
    phase = "ready" =>
        /\ \A h \in AllHeaders :
              Range(h) = Range(table.header) =>
                  ChosenKeys(h) = ChosenKeys(table.header)
        /\ (\E k \in Range(table.header) : IsCountryName(k)) =>
               IsCountryName(ChosenKeys(table.header)[1])
        /\ (\E k \in Range(table.header) : IsYearName(k)) =>
               IsYearName(ChosenKeys(table.header)[2])
        /\ (\E k \in Range(table.header) : IsGdpName(k)) =>
               IsGdpName(ChosenKeys(table.header)[3])

\* C13 diverges: part_000 does not pick the column "Real GDP", whose name
\* contains gdp, but the first column, and so reads every GDP as missing.
C13_FirstColumnAsGdp ==
    /\ script = "part000" /\ phase = "ready"
    /\ table = [header |-> RealGdpHeader, rows |-> <<<<DE, Y2000, <<"5">>>>>>]
    /\ gdpKey3(table) = ColCountryName
    /\ Len(cleaned) = 1 /\ isNaN(cleaned[1].gdp)

\* how often the record r occurs in seq
Count(seq, r) == Cardinality({i \in DOMAIN seq : seq[i] = r})

Ascending(seq) == \A i \in 2..Len(seq) : seq[i - 1].year.v <= seq[i].year.v

\* the retained rows of country c, in table order
RowsOf(c) == SelectSeq(cleaned, LAMBDA r : r.country = c)

\* C15: the records handed to the builder for a country are all of the
\* country's retained rows in ascending year order, rows of the same year
\* included; so the bars are in year order and none is missing.
C15_SortedPermutation ==
    phase = "ready" =>
        /\ \A c \in Range(countries) :
              /\ Ascending(Series(c))
              /\ Len(Series(c)) = Len(RowsOf(c))
              /\ \A r \in Range(RowsOf(c)) : Count(Series(c), r) = Count(RowsOf(c), r)
        /\ chart.bars # <<>> =>
              /\ Ascending(chart.bars)
              /\ Len(chart.bars) =
                    IF script = "script1" THEN Len(ValidSeries(BarsCountry))
                    ELSE Len(RowsOf(BarsCountry))

\* a country is drawn whose rows are out of year order in the table and
\* two of which share a year
C15_SameYearTwice ==
    /\ phase = "ready" /\ chart.bars # <<>>
    /\ ~Ascending(grouped[BarsCountry])
    /\ \E i, j \in DOMAIN chart.bars : i < j /\ chart.bars[i].year = chart.bars[j].year

\* C16: once the page is ready, no selection, reset click or redraw
\* changes the records or the stored list of any country.
C16_DatasetReadOnly ==
    [][phase = "ready" => (grouped' = grouped /\ cleaned' = cleaned)]_vars

\* FR was selected after DE was drawn, and DE's stored rows are still in
\* table order, which is not year order
C16_StillInTableOrder ==
    /\ phase = "ready" /\ selectValue = FR /\ chart.drawn = <<FR>>
    /\ DE \in DOMAIN grouped /\ ~Ascending(grouped[DE])

\* a first draw of the selected country on an empty svg
FreshDraw ==
    CASE script = "script1" -> draw1(grouped, selectValue)
      [] script = "script2" -> draw2(grouped, selectValue, EmptyChart)
      [] script = "part000" -> drawForCountry(grouped, selectValue)

\* C17: the chart holds what a first draw of the selected country would
\* put up: with the empty-state message there are no bars, and with bars
\* there is no empty-state message and the title is the country's.
C17_OnlyLastDrawn ==
    phase = "ready" =>
        /\ chart = FreshDraw
        /\ chart.emptyText => chart.bars = <<>>
        /\ chart.bars # <<>> => (~chart.emptyText /\ chart.title = <<selectValue>>)

\* FR, which has nothing to show, was selected after DE's bars were drawn
C17_EmptyAfterBars ==
    /\ script = "script1" /\ phase = "ready" /\ countries = <<DE, FR>>
    /\ ValidSeries(DE) # <<>>
    /\ selectValue = FR /\ chart.emptyText /\ chart.bars = <<>>

\* the running cumulative of an item; part_000 keeps it in end
Cumulative(it) == IF "cumulative" \in DOMAIN it THEN it.cumulative ELSE it.end

\* C19: with whole GDP values, item i's running cumulative is the GDP of
\* the country's i-th valid record, and the last item's is the latest
\* valid GDP.
C19_CumulativeTelescopes ==
    chart.bars # <<>> =>
        /\ Len(chart.bars) = Len(ValidSeries(BarsCountry))
        /\ \A i \in DOMAIN chart.bars :
              i <= Len(ValidSeries(BarsCountry)) =>
                  NumEq(Cumulative(chart.bars[i]), ValidSeries(BarsCountry)[i].gdp)

\* C19 diverges: part_000 has an item for the record without GDP, whose
\* running value is 0, while the second valid GDP is 5.
C19_RunningValueZero ==
    /\ script = "part000" /\ table = MissingBetween /\ phase = "ready"
    /\ Len(ValidSeries(DE)) = 2 /\ ValidSeries(DE)[2].gdp = Whole(5)
    /\ Len(chart.bars) = 3 /\ chart.bars[2].end = Whole(0)

\* C14: normalizing the text of a normalized value gives the same value,
\* and a value that is not a number stays not a number.
C14_NormalizeIdempotent == stage = "twice" => twice = once

\* a string with a decimal comma was normalized twice, to a number
C14_CommaNormalizedTwice ==
    /\ stage = "twice" /\ ~once.nan
    /\ \E i \in DOMAIN given : given[i] = ","
    /\ \E i \in DOMAIN StringOf(once) : StringOf(once)[i] = "."

\* the chart has data, so the years have an extent
HasExtent == linePhase = "ready" /\ filtered # <<>>

Leq(a, b) == ~a.nan /\ ~b.nan /\ a.v <= b.v

DomainInsideExtent ==
    /\ Leq(d3min(filtered), xDomain[1])
    /\ Leq(xDomain[1], xDomain[2])
    /\ Leq(xDomain[2], d3max(filtered))

WholeYears == \A i \in DOMAIN filtered : filtered[i].year.v % 10 = 0

\* C18: when the selection changes, the x domain becomes the full extent
\* of the years and every line drawn for the change is drawn over the full
\* extent, not over a range left by an earlier brush.
C18_ChangeDrawsOverFullExtent ==
    [][LineChange =>
         /\ xDomain' = extent(filtered)
         /\ \A c \in DOMAIN lines' : lines'[c].over = extent(filtered)]_vars

\* after a change the x domain is the full extent, and a line on the chart
\* is drawn over a narrower range
C18_LineOverZoomRange ==
    /\ HasExtent
    /\ WholeYears
    /\ ~resetDisabled
    /\ xDomain = extent(filtered)
    /\ \E c \in DOMAIN lines : lines[c].over # extent(filtered)

\* C20: after any brush, reset, selection change and resize the x domain
\* [lo, hi] has minYear <= lo <= hi <= maxYear, and a reset makes it the
\* full extent.
C20_DomainStaysInsideExtent ==
    /\ [](HasExtent => DomainInsideExtent)
    /\ [][ResetZoom => xDomain' = extent(filtered)]_vars

\* the x domain starts after the last year of the data, and after its own end
C20_DomainStartsAfterItsEnd ==
    /\ HasExtent
    /\ xDomain[1].v > xDomain[2].v
    /\ xDomain[1].v > d3max(filtered).v

\* when every year is a whole number the x domain stays inside the extent
DomainInsideExtentOfWholeYears == (HasExtent /\ WholeYears) => DomainInsideExtent

\* a brush has narrowed the domain of whole years
NarrowedWholeYears ==
    HasExtent /\ WholeYears /\ xDomain # extent(filtered) /\ xDomain[1] # xDomain[2]

====
